---- MODULE Spec2Model ----
(***************************************************************************)
(* Model of pacmod's packager (pack/pack.go): Module() and the four steps  *)
(* it runs, over a small file system.  Strings are sequences of one-       *)
(* character strings so that the path arithmetic of the code (Clean, Join, *)
(* TrimPrefix, Split) is computed character by character.                  *)
(***************************************************************************)
EXTENDS Integers, Sequences, FiniteSets, TLC

\* ------------------------------------------------------------------------
\* Bounds
\* ------------------------------------------------------------------------
MaxRuns == 2
MaxLineLen == 4

\* ------------------------------------------------------------------------
\* Strings
\* ------------------------------------------------------------------------
Sep == "/"

HasPrefix(s, prefix) ==
  /\ Len(s) >= Len(prefix)
  /\ SubSeq(s, 1, Len(prefix)) = prefix

\* strings.TrimPrefix
TrimPrefix(s, prefix) ==
  IF HasPrefix(s, prefix) THEN SubSeq(s, Len(prefix) + 1, Len(s)) ELSE s

\* strings.Split(s, " "): one token more than there are spaces
RECURSIVE SplitAcc(_, _, _)
SplitAcc(s, i, cur) ==
  IF i > Len(s) THEN <<cur>>
  ELSE IF s[i] = " " THEN <<cur>> \o SplitAcc(s, i + 1, <<>>)
  ELSE SplitAcc(s, i + 1, Append(cur, s[i]))

Split(s) == SplitAcc(s, 1, <<>>)

\* ------------------------------------------------------------------------
\* path/filepath (unix)
\* ------------------------------------------------------------------------
\* the ".." case of Clean: drop the last element of the output buffer
RECURSIVE BackUp(_, _, _)
BackUp(out, w, dotdot) ==
  IF w > dotdot /\ out[w + 1] # Sep THEN BackUp(out, w - 1, dotdot)
  ELSE SubSeq(out, 1, w)

RECURSIVE ElemEnd(_, _)
ElemEnd(p, r) == IF r <= Len(p) /\ p[r] # Sep THEN ElemEnd(p, r + 1) ELSE r

RECURSIVE CleanLoop(_, _, _, _, _)
CleanLoop(p, r, out, dotdot, rooted) ==
  LET n == Len(p) IN
  IF r > n THEN out
  ELSE IF p[r] = Sep THEN CleanLoop(p, r + 1, out, dotdot, rooted)
  ELSE IF p[r] = "." /\ (r = n \/ p[r + 1] = Sep)
       THEN CleanLoop(p, r + 1, out, dotdot, rooted)
  ELSE IF p[r] = "." /\ p[r + 1] = "." /\ (r + 1 = n \/ p[r + 2] = Sep)
       THEN IF Len(out) > dotdot
            THEN CleanLoop(p, r + 2, BackUp(out, Len(out) - 1, dotdot), dotdot, rooted)
            ELSE IF ~rooted
                 THEN LET o2 == (IF Len(out) > 0 THEN Append(out, Sep) ELSE out)
                                \o <<".", ".">>
                      IN CleanLoop(p, r + 2, o2, Len(o2), rooted)
                 ELSE CleanLoop(p, r + 2, out, dotdot, rooted)
  ELSE LET o1 == IF (rooted /\ Len(out) # 1) \/ (~rooted /\ Len(out) # 0)
                 THEN Append(out, Sep) ELSE out
           e  == ElemEnd(p, r)
       IN CleanLoop(p, e, o1 \o SubSeq(p, r, e - 1), dotdot, rooted)

\* filepath.Clean
Clean(p) ==
  IF p = <<>> THEN <<".">>
  ELSE LET rooted == p[1] = Sep
           out == IF rooted THEN CleanLoop(p, 2, <<Sep>>, 1, TRUE)
                  ELSE CleanLoop(p, 1, <<>>, 0, FALSE)
       IN IF out = <<>> THEN <<".">> ELSE out

\* filepath.Join of two elements
Join(a, b) ==
  IF a # <<>> THEN Clean(a \o <<Sep>> \o b)
  ELSE IF b # <<>> THEN Clean(b)
  ELSE <<>>

\* os.FileInfo.Name() of a path: trailing separators dropped, then the part
\* after the last separator
RECURSIVE StripTrailing(_)
StripTrailing(p) ==
  IF Len(p) > 1 /\ p[Len(p)] = Sep THEN StripTrailing(SubSeq(p, 1, Len(p) - 1)) ELSE p

RECURSIVE AfterLastSep(_, _)
AfterLastSep(p, i) ==
  IF i < 1 THEN p
  ELSE IF p[i] = Sep THEN SubSeq(p, i + 1, Len(p))
  ELSE AfterLastSep(p, i - 1)

BaseName(p) == LET q == StripTrailing(p) IN AfterLastSep(q, Len(q) - 1)

\* ------------------------------------------------------------------------
\* Names and the file system
\* ------------------------------------------------------------------------
GoMod == <<"g", "o", ".", "m", "o", "d">>
SourceZip == <<"s", "o", "u", "r", "c", "e", ".", "z", "i", "p">>
InfoExt == <<".", "i", "n", "f", "o">>
DotGit == <<".", "g", "i", "t">>

\* the process's working directory
Cwd == <<"/", "w">>

\* the file a path string names: relative paths start at the working directory
Abs(p) == IF p # <<>> /\ p[1] = Sep THEN Clean(p) ELSE Clean(Cwd \o <<Sep>> \o p)

Parent(loc) == Clean(loc \o <<Sep, ".", ".">>)

\* the directories on disk (Pack creates none)
Dirs ==
  { <<"/">>, <<"/", "w">>, <<"/", "t">>,
    <<"/", "w">> \o <<Sep>> \o DotGit,
    <<"/", "w", "/", "o">>,
    <<"/", "w", "/", "m">>,
    <<"/", "w", "/", "m", "/">> \o DotGit,
    <<"/", "w", "/", "m", "/", "s">> }

\* file contents: a text file is [text |-> lines], an archive is
\* [entries |-> ..., complete |-> ...], an info record is [Version, Time]
TextFile(lines) == [text |-> lines]
IsText(c) == DOMAIN c = {"text"}
IsZip(c) == DOMAIN c = {"entries", "complete"}
IsInfo(c) == DOMAIN c = {"Version", "Time"}

\* byte order of the characters used
Alphabet ==
  <<"\t", " ", ".", "/", "1", "@", "a", "b", "c", "d", "e", "f", "g", "i",
    "m", "n", "o", "p", "r", "s", "t", "u", "v", "w", "x", "z">>
Ord(c) == CHOOSE i \in 1..Len(Alphabet) : Alphabet[i] = c

RECURSIVE StrLess(_, _)
StrLess(a, b) ==
  IF a = <<>> THEN b # <<>>
  ELSE IF b = <<>> THEN FALSE
  ELSE IF Head(a) = Head(b) THEN StrLess(Tail(a), Tail(b))
  ELSE Ord(Head(a)) < Ord(Head(b))

RECURSIVE SortNames(_)
SortNames(S) ==
  IF S = {} THEN <<>>
  ELSE LET least == CHOOSE a \in S : \A b \in S \ {a} : StrLess(a, b)
       IN <<least>> \o SortNames(S \ {least})

\* readDirNames: the sorted names in a directory
ReadDirNames(fsys, dir) ==
  SortNames({BaseName(l) : l \in {k \in (DOMAIN fsys) \cup Dirs : k # dir /\ Parent(k) = dir}})

\* ------------------------------------------------------------------------
\* getFilePathsToArchive: filepath.Walk with the callback inlined
\* ------------------------------------------------------------------------
\* the callback's pruning test on a directory
SkipDir(name) == name = DotGit

RECURSIVE WalkNode(_, _), WalkChildren(_, _, _)
WalkNode(fsys, p) ==
  IF Abs(p) \in Dirs
  THEN IF SkipDir(BaseName(p)) THEN <<>>
       ELSE WalkChildren(fsys, p, ReadDirNames(fsys, Abs(p)))
  ELSE <<p>>

WalkChildren(fsys, p, names) ==
  IF names = <<>> THEN <<>>
  ELSE WalkNode(fsys, Join(p, Head(names))) \o WalkChildren(fsys, p, Tail(names))

getFilePathsToArchive(fsys, p) == WalkNode(fsys, p)

\* getZipPath
getZipPath(p, currentFilePath, name, ver) ==
  Join(name \o <<"@">> \o ver, TrimPrefix(currentFilePath, p))

\* ------------------------------------------------------------------------
\* State
\* ------------------------------------------------------------------------
VARIABLES
  path,             \* Module's argument: the module directory
  version,          \* Module's argument
  outputDirectory,  \* Module's argument
  fs,               \* the files on disk: location -> contents
  pc,               \* the step Module is about to run, or "done"
  moduleName,       \* the result of getModuleName
  result,           \* what Module returned: "none" while running, "ok", "err"
  failedStep,       \* the step whose error Module returned, or "none"
  run,              \* how many times Module has been called
  events,           \* handle operations of this call, in program order
  ioFailed,         \* an I/O operation of this call failed
  fsAtStart,        \* the files on disk when this call began
  snap,             \* the files on disk after the last step that succeeded
  prev,             \* the previous call: its result, whether its I/O was
                    \* free of errors, the entry names of its archive
  nameObs,          \* what getModuleName met: open outcome, text scanned
  copyObs,          \* what copyModuleFile did: read and write attempts
  zone              \* the offset of the process's local time zone, in hours

vars == <<path, version, outputDirectory, fs, pc, moduleName, result, failedStep,
          run, events, ioFailed, fsAtStart, snap, prev, nameObs, copyObs, zone>>

inputs == <<path, version, outputDirectory>>

Steps == <<"name", "zip", "info", "copy">>

\* ------------------------------------------------------------------------
\* Fixtures
\* ------------------------------------------------------------------------
PathChoices ==
  { <<".">>, <<"m">>, <<"m", "/">>, <<".", "/", "m">>, <<"/", "w", "/", "m">> }

OutChoices ==
  { <<".">>, <<"m">>, <<"/", "w", "/", "m">>, <<"m", "/", "s">>, <<"/", "t">> }

Versions == { <<"v", "1">> }

\* local time zones, as hours east of UTC
Zones == {-1, 0, 1}

\* "m x" followed by a second line, and a header of one token
GoodManifest == TextFile(<< <<"m", " ", "x">>, <<"r">> >>)
ManifestChoices == { GoodManifest, TextFile(<< <<"m">> >>) }

OtherManifest == TextFile(<< <<"m", " ", "z">> >>)
Data(c) == TextFile(<< <<c>> >>)

\* the tree on disk, with manifest m at the module directory modLoc
InitialFiles(modLoc, m) ==
  LET W == <<"/", "w", "/">>
      M == <<"/", "w", "/", "m", "/">>
      base == (W \o GoMod :> OtherManifest)
           @@ (W \o <<".", "x">> :> Data("d"))
           @@ (W \o DotGit \o <<"/", "c">> :> Data("c"))
           @@ (M \o GoMod :> OtherManifest)
           @@ (M \o <<"a">> :> Data("a"))
           @@ (M \o <<"s", "/", "b">> :> Data("b"))
           @@ (M \o DotGit \o <<"/", "c">> :> Data("c"))
  IN [base EXCEPT ![Clean(modLoc \o <<Sep>> \o GoMod)] = m]

NoPrev == [result |-> "none", clean |-> TRUE, names |-> {}]
NoNameObs == [opened |-> FALSE, readErr |-> FALSE, text |-> <<>>]
NoCopyObs == [read |-> FALSE, write |-> FALSE]

StartOfCall ==
  /\ pc = "name"
  /\ moduleName = <<>>
  /\ result = "none"
  /\ failedStep = "none"
  /\ events = <<>>
  /\ ioFailed = FALSE
  /\ fsAtStart = fs
  /\ snap = fs
  /\ nameObs = NoNameObs
  /\ copyObs = NoCopyObs

Init ==
  /\ path \in PathChoices
  /\ version \in Versions
  /\ outputDirectory \in OutChoices
  /\ \E m \in ManifestChoices : fs = InitialFiles(Abs(path), m)
  /\ zone \in Zones
  /\ run = 1
  /\ prev = NoPrev
  /\ StartOfCall

\* ------------------------------------------------------------------------
\* Module: the order of the steps and the return at the first error
\* ------------------------------------------------------------------------
StepAfter(step) ==
  CASE step = "name" -> "zip"
    [] step = "zip" -> "info"
    [] step = "info" -> "copy"
    [] step = "copy" -> "done"

\* a Module that goes on to the next step whatever the last one returned
NextPcNoAbort(step, failed) == StepAfter(step)

NextPc(step, failed) == IF failed THEN "done" ELSE StepAfter(step)

\* the end of a step inside Module
Return(step, failed) ==
  /\ pc' = NextPc(step, failed)
  /\ failedStep' = IF failed /\ failedStep = "none" THEN step ELSE failedStep
  /\ result' = IF pc' # "done" THEN "none"
               ELSE IF failedStep' # "none" THEN "err" ELSE "ok"
  /\ snap' = IF failed THEN snap ELSE fs'

ZipLoc == Abs(Join(outputDirectory, SourceZip))
InfoLoc == Abs(Join(outputDirectory, version \o InfoExt))

Ev(op, kind, i) == [op |-> op, h |-> <<kind, i>>]

\* defers run last-registered first
RECURSIVE Reverse(_)
Reverse(s) == IF s = <<>> THEN <<>> ELSE Append(Reverse(Tail(s)), Head(s))

\* ------------------------------------------------------------------------
\* getModuleName
\* ------------------------------------------------------------------------
FirstLine(c) == IF c.text = <<>> THEN <<>> ELSE c.text[1]

\* the header split on single spaces: fails on one part, else the second part
ParseHeader(text) ==
  LET moduleHeaderParts == Split(text)
  IN IF Len(moduleHeaderParts) <= 1
     THEN [ok |-> FALSE, name |-> <<>>]
     ELSE [ok |-> TRUE, name |-> moduleHeaderParts[2]]

GetModuleName ==
  /\ pc = "name"
  /\ LET loc == Abs(Join(path, GoMod)) IN
     \/ \* os.Open fails
        /\ nameObs' = [opened |-> FALSE, readErr |-> FALSE, text |-> <<>>]
        /\ ioFailed' = TRUE
        /\ events' = events
        /\ moduleName' = <<>>
        /\ fs' = fs
        /\ Return("name", TRUE)
     \/ \* the file opens; the scanner returns the first line, or on a read
        \* error what it had buffered of it (k characters)
        /\ loc \in DOMAIN fs
        /\ IsText(fs[loc])
        /\ \E readErr \in BOOLEAN :
           \E k \in 0..Len(FirstLine(fs[loc])) :
             /\ (~readErr => k = Len(FirstLine(fs[loc])))
             /\ LET text == SubSeq(FirstLine(fs[loc]), 1, k)
                    parsed == ParseHeader(text)
                IN /\ nameObs' = [opened |-> TRUE, readErr |-> readErr, text |-> text]
                   /\ ioFailed' = readErr
                   /\ events' = events \o <<Ev("open", "manifest", 0),
                                             Ev("close", "manifest", 0)>>
                   /\ moduleName' = parsed.name
                   /\ fs' = fs
                   /\ Return("name", ~parsed.ok)
  /\ UNCHANGED <<inputs, run, fsAtStart, prev, copyObs, zone>>

\* ------------------------------------------------------------------------
\* createZipArchive
\* ------------------------------------------------------------------------
\* the entry added for the i-th file of the list
ZipEntry(files, i) ==
  [name |-> getZipPath(path, files[i], moduleName, version), src |-> Abs(files[i])]

\* the writer's Close deferred before the file's, so that it runs after it
ZipDefersWriterFirst(m) ==
  <<Ev("finalize", "writer", 0), Ev("close", "zip", 0)>>
    \o [i \in 1..m |-> Ev("close", "src", i)]

\* the deferred calls in the order the function registers them, after m
\* source files were opened: zipFile.Close, zipWriter.Close, fileToZip.Close...
ZipDefers(m) ==
  <<Ev("close", "zip", 0), Ev("finalize", "writer", 0)>>
    \o [i \in 1..m |-> Ev("close", "src", i)]

\* the handle operations of a call that got past os.Create and opened m files
ZipEvents(m) ==
  <<Ev("open", "zip", 0), Ev("new", "writer", 0)>>
    \o [i \in 1..m |-> Ev("open", "src", i)]
    \o Reverse(ZipDefers(m))

\* where the loop can stop at file i: os.Open, zipWriter.Create, io.Copy
LoopStages == {"open", "entry", "copy"}

CreateZipArchive ==
  /\ pc = "zip"
  /\ \/ \* filepath.Walk reports an error
        /\ fs' = fs
        /\ events' = events
        /\ ioFailed' = TRUE
        /\ Return("zip", TRUE)
     \/ \* os.Create fails
        /\ fs' = fs
        /\ events' = events
        /\ ioFailed' = TRUE
        /\ Return("zip", TRUE)
     \/ \E files \in {getFilePathsToArchive(fs, path)} :
        \E all \in {[j \in 1..Len(files) |-> ZipEntry(files, j)]} :
          \/ \* the archive file is created (truncated), the loop stops at file i
             \E i \in 1..Len(files), stage \in LoopStages, flushOK \in BOOLEAN :
               /\ (stage = "entry" => ~flushOK)
               /\ LET opened == IF stage = "open" THEN i - 1 ELSE i
                      added == IF stage = "copy" THEN i ELSE i - 1
                  IN /\ fs' = (ZipLoc :> [entries |-> SubSeq(all, 1, added),
                                          complete |-> flushOK]) @@ fs
                     /\ events' = events \o ZipEvents(opened)
               /\ ioFailed' = TRUE
               /\ Return("zip", TRUE)
          \/ \* every file is added; closing the writer and the file may fail
             \E flushOK \in BOOLEAN, closeOK \in BOOLEAN :
               /\ fs' = (ZipLoc :> [entries |-> all, complete |-> flushOK]) @@ fs
               /\ events' = events \o ZipEvents(Len(files))
               /\ ioFailed' = (ioFailed \/ ~flushOK \/ ~closeOK)
               /\ Return("zip", FALSE)
  /\ UNCHANGED <<inputs, moduleName, run, fsAtStart, prev, nameObs, copyObs, zone>>

\* ------------------------------------------------------------------------
\* createInfoFile
\* ------------------------------------------------------------------------
HoursPerDay == 24

\* time.Now(): the instant, carrying the process's local zone.  The clock
\* advances by an hour from one call of Module to the next.
UnixNow == run - 1
TimeNow == [unix |-> UnixNow, wall |-> UnixNow + zone]

\* getInfoFileFormattedTime: the wall clock of the time's own zone, then "Z"
getInfoFileFormattedTime(t) == <<t.wall \div HoursPerDay, t.wall % HoursPerDay, "Z">>

CreateInfoFile ==
  /\ pc = "info"
  /\ \/ \* os.Create fails
        /\ fs' = fs
        /\ events' = events
        /\ ioFailed' = TRUE
        /\ Return("info", TRUE)
     \/ \E writeOK \in BOOLEAN, closeOK \in BOOLEAN :
          /\ (~writeOK => closeOK)
          /\ LET currentTime == getInfoFileFormattedTime(TimeNow)
                 info == [Version |-> version, Time |-> currentTime]
             IN fs' = (InfoLoc :> (IF writeOK THEN info ELSE TextFile(<<>>))) @@ fs
          /\ events' = events \o <<Ev("open", "info", 0), Ev("close", "info", 0)>>
          /\ ioFailed' = (ioFailed \/ ~writeOK \/ ~closeOK)
          /\ Return("info", ~writeOK)
  /\ UNCHANGED <<inputs, moduleName, run, fsAtStart, prev, nameObs, copyObs, zone>>

\* ------------------------------------------------------------------------
\* copyModuleFile
\* ------------------------------------------------------------------------
sourcePath == Join(path, GoMod)
destinationPath == Join(outputDirectory, GoMod)

\* a copy step without the test for "."
CopySkippedNoDot(p, out) == Join(p, GoMod) = Join(out, GoMod)

CopySkipped(p, out) ==
  \/ out = <<".">>
  \/ Join(p, GoMod) = Join(out, GoMod)

\* ioutil.WriteFile failing after it opened (truncated) the destination
Truncated(fsys, dst) == (dst :> TextFile(<<>>)) @@ fsys

\* a copy that opens (truncates) the destination before it reads the source
CopyResultTruncateFirst(fsys, src, dst) == (dst :> Truncated(fsys, dst)[src]) @@ fsys

\* ioutil.ReadFile then ioutil.WriteFile: the contents are in memory before
\* the destination is opened for writing
CopyResult(fsys, src, dst) == (dst :> fsys[src]) @@ fsys


CopyModuleFile ==
  /\ pc = "copy"
  /\ LET src == Abs(sourcePath)
         dst == Abs(destinationPath)
     IN \/ /\ CopySkipped(path, outputDirectory)
           /\ fs' = fs
           /\ copyObs' = [read |-> FALSE, write |-> FALSE]
           /\ ioFailed' = ioFailed
           /\ Return("copy", FALSE)
        \/ \* ReadFile fails
           /\ ~CopySkipped(path, outputDirectory)
           /\ fs' = fs
           /\ copyObs' = [read |-> TRUE, write |-> FALSE]
           /\ ioFailed' = TRUE
           /\ Return("copy", TRUE)
        \/ \* WriteFile fails: at open, or after the destination was truncated
           /\ ~CopySkipped(path, outputDirectory)
           /\ src \in DOMAIN fs
           /\ \E truncated \in BOOLEAN :
                fs' = IF truncated THEN Truncated(fs, dst) ELSE fs
           /\ copyObs' = [read |-> TRUE, write |-> TRUE]
           /\ ioFailed' = TRUE
           /\ Return("copy", TRUE)
        \/ /\ ~CopySkipped(path, outputDirectory)
           /\ src \in DOMAIN fs
           /\ fs' = CopyResult(fs, src, dst)
           /\ copyObs' = [read |-> TRUE, write |-> TRUE]
           /\ ioFailed' = ioFailed
           /\ Return("copy", FALSE)
  /\ UNCHANGED <<inputs, moduleName, run, events, fsAtStart, prev, nameObs, zone>>

\* ------------------------------------------------------------------------
\* Module succeeded and is called again with the same arguments
\* ------------------------------------------------------------------------
EntryNames(fsys) ==
  IF ZipLoc \in DOMAIN fsys /\ IsZip(fsys[ZipLoc])
  THEN {fsys[ZipLoc].entries[j].name : j \in 1..Len(fsys[ZipLoc].entries)}
  ELSE {}

ModuleAgain ==
  /\ pc = "done"
  /\ result = "ok"
  /\ run < MaxRuns
  /\ run' = run + 1
  /\ prev' = [result |-> result, clean |-> ~ioFailed, names |-> EntryNames(fs)]
  /\ fs' = fs
  /\ pc' = "name"
  /\ moduleName' = <<>>
  /\ result' = "none"
  /\ failedStep' = "none"
  /\ events' = <<>>
  /\ ioFailed' = FALSE
  /\ fsAtStart' = fs
  /\ snap' = fs
  /\ nameObs' = NoNameObs
  /\ copyObs' = NoCopyObs
  /\ UNCHANGED <<inputs, zone>>

Next ==
  \/ GetModuleName
  \/ CreateZipArchive
  \/ CreateInfoFile
  \/ CopyModuleFile
  \/ ModuleAgain

Spec == Init /\ [][Next]_vars

\* ------------------------------------------------------------------------
\* getModuleName over every short first line
\* ------------------------------------------------------------------------
LineChars == {"m", "x", " ", "\t"}

RECURSIVE LinesOfLen(_)
LinesOfLen(n) ==
  IF n = 0 THEN {<<>>}
  ELSE {Append(l, c) : l \in LinesOfLen(n - 1), c \in LineChars}

Lines == UNION {LinesOfLen(n) : n \in 0..MaxLineLen}

InitName ==
  /\ path = <<"m">>
  /\ version \in Versions
  /\ outputDirectory = <<"/", "t">>
  /\ \E m \in {TextFile(<<>>)} \cup {TextFile(<<l>>) : l \in Lines} :
       fs = InitialFiles(Abs(path), m)
  /\ zone = 0
  /\ run = 1
  /\ prev = NoPrev
  /\ StartOfCall

NextName == GetModuleName

SpecName == InitName /\ [][NextName]_vars

\* ------------------------------------------------------------------------
\* Claims
\* ------------------------------------------------------------------------
Done == pc = "done"
Succeeded == pc = "done" /\ result = "ok"

\* the locations where two file systems differ
Differ(f, g) ==
  {l \in (DOMAIN f) \cup (DOMAIN g) :
     \/ l \notin DOMAIN f
     \/ l \notin DOMAIN g
     \/ f[l] # g[l]}

\* no directory between root (exclusive) and file l is named .git
RECURSIVE BelowWithoutGit(_, _)
BelowWithoutGit(l, root) ==
  LET d == Parent(l)
  IN IF d = root THEN TRUE
     ELSE IF d = l THEN FALSE
     ELSE BaseName(d) # DotGit /\ BelowWithoutGit(d, root)

FilesToArchive(fsys) == {l \in DOMAIN fsys : BelowWithoutGit(l, Abs(path))}

\* the entries a reader finds in the archive on disk: those of the central
\* directory, which the writer's Close writes
ReadableEntries(z) == IF z.complete THEN z.entries ELSE <<>>

\* C1: after a successful Pack the entries of source.zip correspond one to one
\* to the non-directory files under modulePath (as they were when Pack
\* enumerated them) that are not below a directory named .git.
C1_EntriesMatchFiles ==
  Succeeded =>
    /\ ZipLoc \in DOMAIN fs
    /\ IsZip(fs[ZipLoc])
    /\ LET es == ReadableEntries(fs[ZipLoc])
       IN /\ \A i, j \in 1..Len(es) : es[i].src = es[j].src => i = j
          /\ {es[i].src : i \in 1..Len(es)} = FilesToArchive(fsAtStart)

\* when the writer's Close succeeded, the entries written are one per file
\* that was under the module root, outside .git directories, at enumeration
ArchiveFinalizedMatchesFiles ==
  (Succeeded /\ fs[ZipLoc].complete) =>
    LET es == fs[ZipLoc].entries
    IN /\ \A i, j \in 1..Len(es) : es[i].src = es[j].src => i = j
       /\ {es[i].src : i \in 1..Len(es)} = FilesToArchive(fsAtStart)

\* the path of file l relative to the module root
RelativePath(l) == SubSeq(l, Len(Abs(path) \o <<Sep>>) + 1, Len(l))

\* C2: for every spelling of modulePath, every archived file is stored as
\* <moduleName>@<version>/<relativePath>, the relative path kept character by
\* character.
C2_EntryPaths ==
  ((pc \in {"info", "copy"} \/ Succeeded) /\ ~ioFailed) =>
    \A i \in 1..Len(fs[ZipLoc].entries) :
      fs[ZipLoc].entries[i].name
        = moduleName \o <<"@">> \o version \o <<Sep>>
            \o RelativePath(fs[ZipLoc].entries[i].src)

\* the manifest could not be opened, or nothing of it could be read, or its
\* header was rejected
ManifestUnusable ==
  \/ ~nameObs.opened
  \/ nameObs.readErr /\ nameObs.text = <<>>
  \/ Len(Split(nameObs.text)) <= 1

IsSpace(c) == c \in {" ", "\t"}

RECURSIVE FieldsAcc(_, _, _)
FieldsAcc(s, i, cur) ==
  IF i > Len(s) THEN (IF cur = <<>> THEN <<>> ELSE <<cur>>)
  ELSE IF IsSpace(s[i])
       THEN (IF cur = <<>> THEN <<>> ELSE <<cur>>) \o FieldsAcc(s, i + 1, <<>>)
       ELSE FieldsAcc(s, i + 1, Append(cur, s[i]))

Fields(s) == FieldsAcc(s, 1, <<>>)

\* C4: name resolution fails when the first line has fewer than two
\* whitespace-separated tokens, and when it succeeds the name is the second
\* whitespace-separated token.
C4_SecondToken ==
  (pc # "name" /\ nameObs.opened /\ ~nameObs.readErr) =>
    LET tokens == Fields(nameObs.text)
    IN /\ Len(tokens) < 2 => failedStep = "name"
       /\ failedStep # "name" => moduleName = tokens[2]

\* C5: Pack never returns success when an I/O operation it performed failed.
C5_IOErrorsFatal == Succeeded => ~ioFailed

\* the positions of an event in the handle operations
Positions(e) == {i \in 1..Len(events) : events[i] = e}
Handles == {events[i].h : i \in {k \in 1..Len(events) : events[k].op = "open"}}

\* C6: at every return of Pack each handle that was opened has been closed
\* exactly once, after its opening, nothing is closed that was not opened,
\* and an archive writer that was created is finalized before the archive
\* file is closed.
C6_HandlesClosedOnce ==
  Done =>
    /\ \A h \in Handles :
         /\ Cardinality(Positions([op |-> "open", h |-> h])) = 1
         /\ Cardinality(Positions([op |-> "close", h |-> h])) = 1
         /\ \A i \in Positions([op |-> "open", h |-> h]),
               j \in Positions([op |-> "close", h |-> h]) : i < j
    /\ \A i \in 1..Len(events) : events[i].op = "close" => events[i].h \in Handles
    /\ \A i \in Positions(Ev("new", "writer", 0)) :
         /\ Cardinality(Positions(Ev("finalize", "writer", 0))) = 1
         /\ \A f \in Positions(Ev("finalize", "writer", 0)),
               c \in Positions(Ev("close", "zip", 0)) : i < f /\ f < c

\* Pack returned an error from the archive loop with source files open
C6_Witness ==
  /\ pc = "done"
  /\ failedStep = "zip"
  /\ Positions(Ev("open", "src", 2)) # {}
  /\ Positions(Ev("new", "writer", 0)) # {}

\* C7: when the copy is not skipped, after each successful Pack the
\* destination go.mod equals the source go.mod and the source go.mod is what
\* it was before the call; also on the second call, and also when the two
\* path strings differ and name the same file.
C7_CopyIdentical ==
  (Succeeded /\ ~(outputDirectory = <<".">> \/ sourcePath = destinationPath)) =>
    /\ Abs(destinationPath) \in DOMAIN fs
    /\ fs[Abs(destinationPath)] = fs[Abs(sourcePath)]
    /\ fs[Abs(sourcePath)] = fsAtStart[Abs(sourcePath)]

\* the second successful Pack, the two path strings differing and naming
\* the same file
C7_Witness ==
  /\ Succeeded
  /\ run = 2
  /\ sourcePath # destinationPath
  /\ Abs(sourcePath) = Abs(destinationPath)
  /\ copyObs.write

\* C8: the copy step reads nothing and writes nothing (the disk stays as it
\* was) exactly when outputDirectory is "." or the two joined path strings
\* are equal; otherwise it reads the source and, unless that read fails,
\* writes the destination.
C8_SkipExactly ==
  [][pc = "copy" =>
       LET skip == outputDirectory = <<".">> \/ sourcePath = destinationPath
       IN /\ (~copyObs'.read /\ ~copyObs'.write) <=> skip
          /\ skip => fs' = fs
          /\ ~skip => copyObs'.read
          /\ (~skip /\ ~copyObs'.write) => (failedStep' = "copy" /\ fs' = fs)
          /\ (~skip /\ failedStep' = "none") =>
               fs' = [l \in (DOMAIN fs) \cup {Abs(destinationPath)} |->
                        IF l = Abs(destinationPath) THEN fs[Abs(sourcePath)] ELSE fs[l]]
    ]_vars

\* the copy was skipped for "." although the module is elsewhere, and the
\* go.mod of the output directory is the one that was there
C8_Witness ==
  /\ Succeeded
  /\ outputDirectory = <<".">>
  /\ path # <<".">>
  /\ ~copyObs.read
  /\ ~copyObs.write
  /\ fs[Abs(destinationPath)] = OtherManifest
  /\ fs[Abs(sourcePath)] # OtherManifest

\* C9: after a successful Pack the info file holds the input version and the
\* UTC time of packaging followed by Z, whatever the local time zone.
C9_InfoUTC ==
  (Succeeded /\ ~ioFailed) =>
    /\ IsInfo(fs[InfoLoc])
    /\ fs[InfoLoc].Version = version
    /\ fs[InfoLoc].Time = <<UnixNow \div HoursPerDay, UnixNow % HoursPerDay, "Z">>

\* C10: two successive Packs with the same arguments give source.zip the same
\* set of entry paths, wherever outputDirectory lies.
C10_SameEntriesTwice ==
  (Succeeded /\ run >= 2 /\ ~ioFailed /\ prev.result = "ok" /\ prev.clean) =>
    EntryNames(fs) = prev.names

====
